---- MODULE Spec2Model ----
(***************************************************************************)
(* Model of the data-cleaning pipeline experiments/scripts/                *)
(* 01_data_processing.py: text normalisation, sentence splitting,          *)
(* overlap-aware chunking, section-title tracking, record building, the    *)
(* four format adapters and main()'s walk over the raw-data tree.          *)
(*                                                                         *)
(* A Python str is a sequence of characters; a character is a one-element  *)
(* token.  ASCII characters stand for themselves (" ", "\n", "\t", ".",    *)
(* "1", "a", ...).  Characters outside ASCII are named tokens:             *)
(*   JU = U+3002 (ideographic full stop)   TAN = U+FF01   WEN = U+FF1F     *)
(*   DI = U+7B2C   ZHANG = U+7AE0   YI = U+4E00   ER = U+4E8C              *)
(*   ZONG = U+603B   ZE = U+5219   BEL = U+0007 (a control character)      *)
(***************************************************************************)
EXTENDS Integers, Sequences, FiniteSets, TLC

VARIABLES
    CHUNK_SIZE, MIN_CHUNK_SIZE, OVERLAP_SENTENCES,  \* module-level configuration
    raw, text, sentences, pos, current_chunk, current_len, chunks, flushed, pc,
    Document,                                       \* docx.Document, or None
    tree, pending, all_data, output_file, phase,
    installed,                                      \* the importable libraries
    collection, indexer,                            \* offline_indexing.py
    crawler                                         \* reptile.py

cfgvars == <<CHUNK_SIZE, MIN_CHUNK_SIZE, OVERLAP_SENTENCES>>
textvars == <<raw, text, sentences, pos, current_chunk, current_len, chunks, flushed, pc>>
pipevars == <<Document, tree, pending, all_data, output_file, phase>>
envvars == <<installed>>
idxvars == <<collection, indexer>>
crawlvars == <<crawler>>
vars == <<cfgvars, textvars, pipevars, envvars, idxvars, crawlvars>>

----------------------------------------------------------------------------
(* Characters *)

JU == "JU"
TAN == "TAN"
WEN == "WEN"
DI == "DI"
ZHANG == "ZHANG"
YI == "YI"
ER == "ER"
ZONG == "ZONG"
ZE == "ZE"
BEL == "BEL"

\* the class [。！？\n] of split_sentences' pattern
SentenceDelimiters == {JU, TAN, WEN, "\n"}

\* the class [。！？] of the anchor pattern
AnchorTerminators == {JU, TAN, WEN}

\* regex \s and str.isspace() on the characters of the model
IsSpace(c) == c \in {" ", "\n", "\t"}

\* str.isprintable() on one character: false for controls and for every
\* whitespace character other than the ASCII space
IsPrintable(c) == c \notin {"\n", "\t", BEL}

\* [一二三四五六七八九十]
CjkNumerals == {YI, ER}

\* [\d\.]
DigitsAndDots == {"0", "1", "2", "3", "4", "5", "6", "7", "8", "9", "."}

----------------------------------------------------------------------------
(* Sequence helpers: Python built-ins on str and list *)

\* s[:n]
Take(s, n) == SubSeq(s, 1, IF n < Len(s) THEN n ELSE Len(s))

\* s[n:]
Drop(s, n) == SubSeq(s, n + 1, Len(s))

\* lst[-k:]   (Python: -0 is 0, so lst[-0:] is the whole list)
PySliceLast(lst, k) ==
    IF k = 0 \/ k >= Len(lst) THEN lst ELSE SubSeq(lst, Len(lst) - k + 1, Len(lst))

\* s.startswith(p)
StartsWith(s, p) == Len(p) <= Len(s) /\ SubSeq(s, 1, Len(p)) = p

RECURSIVE Join(_)
\* "".join(list_of_str)
Join(ss) == IF ss = <<>> THEN <<>> ELSE Head(ss) \o Join(Tail(ss))

RECURSIVE JoinWith(_, _)
\* sep.join(list_of_str)
JoinWith(sep, ss) ==
    IF ss = <<>> THEN <<>>
    ELSE IF Len(ss) = 1 THEN Head(ss)
    ELSE Head(ss) \o sep \o JoinWith(sep, Tail(ss))

RECURSIVE SumLen(_)
\* sum(len(s) for s in ss)
SumLen(ss) == IF ss = <<>> THEN 0 ELSE Len(Head(ss)) + SumLen(Tail(ss))

\* the positions of s, in order
Indices(s) == [k \in 1..Len(s) |-> k]

\* the positions of s that hold a character of S, in order
PositionsIn(s, S) == SelectSeq(Indices(s), LAMBDA k : s[k] \in S)

\* the positions of s that hold no whitespace, in order
NonSpacePositions(s) == SelectSeq(Indices(s), LAMBDA k : ~IsSpace(s[k]))

\* str.lstrip()
LStrip(s) ==
    LET ns == NonSpacePositions(s)
    IN  IF ns = <<>> THEN <<>> ELSE SubSeq(s, ns[1], Len(s))

\* str.rstrip()
RStrip(s) ==
    LET ns == NonSpacePositions(s)
    IN  IF ns = <<>> THEN <<>> ELSE SubSeq(s, 1, ns[Len(ns)])

\* str.strip()
Strip(s) == RStrip(LStrip(s))

----------------------------------------------------------------------------
(* clean_text_basic *)

\* re.sub(r'\s+', ' ', text): of every run of whitespace the first character
\* is kept, as a space
CollapseWhitespace(s) ==
    LET kept == SelectSeq(Indices(s),
                          LAMBDA k : ~(IsSpace(s[k]) /\ k > 1 /\ IsSpace(s[k - 1])))
    IN  [j \in 1..Len(kept) |-> IF IsSpace(s[kept[j]]) THEN " " ELSE s[kept[j]]]

\* "".join([c for c in text if c.isprintable()])
KeepPrintable(s) == SelectSeq(s, IsPrintable)

clean_text_basic(t) ==
    IF t = <<>> THEN <<>>
    ELSE Strip(KeepPrintable(CollapseWhitespace(t)))

----------------------------------------------------------------------------
(* split_sentences *)

\* the pieces of s between the positions seps (in order): one more piece
\* than separators, empty pieces included
PiecesBetween(s, seps) ==
    [j \in 1..(Len(seps) + 1) |->
        SubSeq(s, IF j = 1 THEN 1 ELSE seps[j - 1] + 1,
                  IF j <= Len(seps) THEN seps[j] - 1 ELSE Len(s))]

\* a slip: the pattern without its capture group, so that re.split drops the
\* delimiters
ReSplitNoGroup(s) == PiecesBetween(s, PositionsIn(s, SentenceDelimiters))

\* re.split(r'([。！？\n])', text): the pieces between delimiters, with each
\* delimiter (the capture group) kept as a piece of its own between them
ReSplit(s) ==
    LET seps == PositionsIn(s, SentenceDelimiters)
        pieces == PiecesBetween(s, seps)
    IN  [i \in 1..(2 * Len(seps) + 1) |->
            IF i % 2 = 1 THEN pieces[(i + 1) \div 2] ELSE <<s[seps[i \div 2]]>>]

\* re.match(pattern, part)
MatchesDelimiter(part) == part # <<>> /\ Head(part) \in SentenceDelimiters

\* the strip applied to a finished sentence (lines 62 and 66)
SentenceStrip(s) == Strip(s)

RECURSIVE SplitLoop(_, _, _)
\* the for loop over parts, then the remainder after the loop
SplitLoop(parts, current_sent, acc) ==
    IF parts = <<>>
    THEN IF current_sent # <<>> THEN Append(acc, SentenceStrip(current_sent)) ELSE acc
    ELSE LET cs == current_sent \o Head(parts)
         IN  IF MatchesDelimiter(Head(parts))
             THEN SplitLoop(Tail(parts), <<>>, Append(acc, SentenceStrip(cs)))
             ELSE SplitLoop(Tail(parts), cs, acc)

split_sentences(t) ==
    SelectSeq(SplitLoop(ReSplit(t), <<>>, <<>>), LAMBDA s : s # <<>>)

----------------------------------------------------------------------------
(* semantic_chunking *)

\* a slip: the slice taken from the front, current_chunk[:OVERLAP_SENTENCES]
OverlapSeedFromFront(cur, overlap) == Take(cur, overlap)

\* the overlap seed of line 91
OverlapSeed(cur, overlap) ==
    IF Len(cur) >= overlap THEN PySliceLast(cur, overlap) ELSE cur

\* state of the loop before the first sentence
ChunkLoopInit == [current_chunk |-> <<>>, current_len |-> 0, chunks |-> <<>>, flushed |-> <<>>]

\* a slip: the flush without its "and current_len > 0", so that an empty
\* accumulator is flushed too
ChunkLoopBodyNoGuard(st, sent, chunk_size, overlap) ==
    LET sent_len == Len(sent)
        flush == st.current_len + sent_len > chunk_size
        overlap_data == OverlapSeed(st.current_chunk, overlap)
        base == IF flush
                THEN [current_chunk |-> overlap_data,
                      current_len |-> SumLen(overlap_data),
                      chunks |-> Append(st.chunks, Join(st.current_chunk)),
                      flushed |-> Append(st.flushed, st.current_chunk)]
                ELSE st
    IN  [base EXCEPT !.current_chunk = Append(base.current_chunk, sent),
                     !.current_len = base.current_len + sent_len]

\* a slip: the flush decided on the accumulated length alone, without the
\* sentence about to be appended
ChunkLoopBodyLateFlush(st, sent, chunk_size, overlap) ==
    LET sent_len == Len(sent)
        flush == st.current_len > chunk_size
        overlap_data == OverlapSeed(st.current_chunk, overlap)
        base == IF flush
                THEN [current_chunk |-> overlap_data,
                      current_len |-> SumLen(overlap_data),
                      chunks |-> Append(st.chunks, Join(st.current_chunk)),
                      flushed |-> Append(st.flushed, st.current_chunk)]
                ELSE st
    IN  [base EXCEPT !.current_chunk = Append(base.current_chunk, sent),
                     !.current_len = base.current_len + sent_len]

\* one iteration of the for loop of lines 80-97.  flushed is a history of the
\* sentence lists behind the joined strings appended to chunks.
ChunkLoopBody(st, sent, chunk_size, overlap) ==
    LET sent_len == Len(sent)
        flush == st.current_len + sent_len > chunk_size /\ st.current_len > 0
        overlap_data == OverlapSeed(st.current_chunk, overlap)
        base == IF flush
                THEN [current_chunk |-> overlap_data,
                      current_len |-> SumLen(overlap_data),
                      chunks |-> Append(st.chunks, Join(st.current_chunk)),
                      flushed |-> Append(st.flushed, st.current_chunk)]
                ELSE st
    IN  [base EXCEPT !.current_chunk = Append(base.current_chunk, sent),
                     !.current_len = base.current_len + sent_len]

\* a slip: the accumulator left over after the loop is not emitted
ChunkLoopEndDropsLast(st) == st

\* lines 99-103
ChunkLoopEnd(st) ==
    IF st.current_chunk # <<>>
    THEN [st EXCEPT !.chunks = Append(st.chunks, Join(st.current_chunk)),
                    !.flushed = Append(st.flushed, st.current_chunk)]
    ELSE st

RECURSIVE ChunkLoop(_, _, _, _)
ChunkLoop(sents, st, chunk_size, overlap) ==
    IF sents = <<>> THEN st
    ELSE ChunkLoop(Tail(sents), ChunkLoopBody(st, Head(sents), chunk_size, overlap),
                   chunk_size, overlap)

semantic_chunking(t, chunk_size, overlap) ==
    ChunkLoopEnd(ChunkLoop(split_sentences(t), ChunkLoopInit, chunk_size, overlap)).chunks

----------------------------------------------------------------------------
(* generate_doc_id, identifiers *)

\* the characters of relative paths, in code-point order; ord(c) is modelled
\* by the position in this table
PathChars ==
    <<".", "/", "D", "F", "P", "a", "b", "c", "d", "f", "h", "m", "n", "o", "p",
      "s", "t", "v", "w", "x">>

Ord(c) == CHOOSE k \in 1..Len(PathChars) : PathChars[k] = c

HexDigits == <<"0", "1", "2", "3", "4", "5", "6", "7", "8", "9",
               "a", "b", "c", "d", "e", "f">>

RECURSIVE DigestOf(_, _)
\* the digest of a byte string read left to right from state h: a function
\* of the bytes alone with a fixed-width result, not injective
DigestOf(s, h) ==
    IF s = <<>> THEN h ELSE DigestOf(Tail(s), (h * 31 + Ord(Head(s))) % 256)

\* hexdigest(): fixed width, lower-case hexadecimal
HexDigest(h) == <<HexDigits[(h \div 16) + 1], HexDigits[(h % 16) + 1]>>

\* a slip: the position of the file in the walk hashed together with its
\* name
generate_doc_id_Numbered(file_name) ==
    HexDigest(DigestOf(file_name, 7 + Cardinality(tree \ pending)))

generate_doc_id(file_name) == HexDigest(DigestOf(file_name, 7))

RECURSIVE Str(_)
\* str(n) / the f-string conversion of a non-negative int
Str(n) == IF n < 10 THEN <<HexDigits[n + 1]>> ELSE Str(n \div 10) \o <<HexDigits[(n % 10) + 1]>>

\* a slip: the chunk's index left out of the identifier
PdfChunkIdNoIndex(doc_id, page_num, idx) == doc_id \o <<"_">> \o Str(page_num)

\* f"{doc_id}_{page_num}_{idx}"
PdfChunkId(doc_id, page_num, idx) == doc_id \o <<"_">> \o Str(page_num) \o <<"_">> \o Str(idx)

\* f"{doc_id}_row_{row_num}"
RowChunkId(doc_id, row_num) == doc_id \o <<"_", "r", "o", "w", "_">> \o Str(row_num)

\* f"{doc_id}_txt_{idx}"
TxtChunkId(doc_id, idx) == doc_id \o <<"_", "t", "x", "t", "_">> \o Str(idx)

\* f"{doc_id}_docx_{idx}"
DocxChunkId(doc_id, idx) == doc_id \o <<"_", "d", "o", "c", "x", "_">> \o Str(idx)

----------------------------------------------------------------------------
(* extract_title, the anchor *)

TITLE_HEAD_LEN == 50
ANCHOR_FALLBACK_LEN == 30

\* how many characters of s from position k on lie in S, up to the first
\* that does not
RunLength(s, k, S) ==
    LET stops == SelectSeq(Indices(s), LAMBDA j : j >= k /\ s[j] \notin S)
    IN  IF stops # <<>> THEN stops[1] - k
        ELSE IF k <= Len(s) THEN Len(s) - k + 1 ELSE 0

\* re.search(r'(^第[一二三四五六七八九十]+章|^[\d\.]+\s)', text[:50]), then
\* match.group().strip(); "" without a match
extract_title(t) ==
    LET head == Take(t, TITLE_HEAD_LEN)
        numerals == RunLength(head, 2, CjkNumerals)
        digits == RunLength(head, 1, DigitsAndDots)
    IN  IF /\ head # <<>>
           /\ head[1] = DI
           /\ numerals >= 1
           /\ numerals + 2 <= Len(head)
           /\ head[numerals + 2] = ZHANG
        THEN Strip(Take(head, numerals + 2))
        ELSE IF /\ digits >= 1
                /\ digits + 1 <= Len(head)
                /\ IsSpace(head[digits + 1])
        THEN Strip(Take(head, digits + 1))
        ELSE <<>>

\* a slip: the fallback taken from the end, chunk_text[-30:]
AnchorOfTail(chunk_text) ==
    LET marks == PositionsIn(chunk_text, AnchorTerminators)
    IN  IF marks # <<>> THEN Take(chunk_text, marks[1])
        ELSE PySliceLast(chunk_text, ANCHOR_FALLBACK_LEN)

\* re.match(r'[^。！？]*[。！？]', chunk_text), else chunk_text[:30]
AnchorOf(chunk_text) ==
    LET marks == PositionsIn(chunk_text, AnchorTerminators)
    IN  IF marks # <<>> THEN Take(chunk_text, marks[1])
        ELSE Take(chunk_text, ANCHOR_FALLBACK_LEN)

\* cleaned_content[:30] of process_excel
RowAnchorOf(cleaned_content) == Take(cleaned_content, ANCHOR_FALLBACK_LEN)

----------------------------------------------------------------------------
(* process_pdf *)

\* "未知章节"
UnknownSection == <<"WEI", "ZHI", ZHANG, "JIE">>

\* a slip: the label kept in a module-level variable that is not reset, so
\* that a document starts under the label the last pdf record was given
LeakedSectionTitle ==
    LET pdfs == SelectSeq(all_data, LAMBDA r : r.file_type = "pdf")
    IN  IF pdfs = <<>> THEN <<"WEI", "ZHI", ZHANG, "JIE">> ELSE pdfs[Len(pdfs)].section_title

\* current_section_title at the start of process_pdf
InitialSectionTitle == UnknownSection

PdfRecord(doc_id, file_name, page_num, idx, section, chunk_text) ==
    [doc_id |-> doc_id,
     chunk_id |-> PdfChunkId(doc_id, page_num, idx),
     title |-> file_name,
     source |-> file_name,
     file_type |-> "pdf",
     page_num |-> page_num,
     section_title |-> section,
     content |-> chunk_text,
     anchor_text |-> AnchorOf(chunk_text),
     chunk_len |-> Len(chunk_text)]

\* if len(chunk_text) < MIN_CHUNK_SIZE: continue
TooShort(chunk_text) == Len(chunk_text) < MIN_CHUNK_SIZE

RECURSIVE PdfChunkRecords(_, _, _, _, _, _)
\* for idx, chunk_text in enumerate(chunks), from index idx on
PdfChunkRecords(chs, idx, doc_id, file_name, page_num, section) ==
    IF chs = <<>> THEN <<>>
    ELSE (IF TooShort(Head(chs)) THEN <<>>
          ELSE <<PdfRecord(doc_id, file_name, page_num, idx, section, Head(chs))>>)
         \o PdfChunkRecords(Tail(chs), idx + 1, doc_id, file_name, page_num, section)

\* what process_pdf returns when a page raises with results collected so far
\* (the except clause prints, then line 186 returns results)
PdfResultsAfterError(results) == results

RECURSIVE PdfPages(_, _, _, _, _, _)
\* the loop over pdf.pages from page i on.  A page is [text, raises]: text is
\* what extract_text() gives for the cropped page ("" for None), raises says
\* that crop() or extract_text() raises on it.
PdfPages(pages, i, results, section, file_name, doc_id) ==
    IF i > Len(pages) THEN results
    ELSE IF pages[i].raises THEN PdfResultsAfterError(results)
    ELSE IF pages[i].text = <<>>
         THEN PdfPages(pages, i + 1, results, section, file_name, doc_id)
    ELSE LET possible_title == extract_title(pages[i].text)
             current_section_title ==
                 IF possible_title # <<>> THEN possible_title ELSE section
             cleaned_text == clean_text_basic(pages[i].text)
             chs == semantic_chunking(cleaned_text, CHUNK_SIZE, OVERLAP_SENTENCES)
         IN  PdfPages(pages, i + 1,
                      results \o PdfChunkRecords(chs, 0, doc_id, file_name, i,
                                                 current_section_title),
                      current_section_title, file_name, doc_id)

\* corrupt: pdfplumber.open raises
process_pdf(data, file_name, doc_id) ==
    IF data.corrupt THEN <<>>
    ELSE PdfPages(data.pages, 1, <<>>, InitialSectionTitle, file_name, doc_id)

----------------------------------------------------------------------------
(* process_excel *)

\* "故障日志表"
TableSection == <<"GU", "ZHANG4", "RI", "ZHI4", "BIAO">>

RECURSIVE RowParts(_, _)
\* parts: f"{col_name}:{val}" for the cells with str(val).strip()
RowParts(columns, row) ==
    IF columns = <<>> THEN <<>>
    ELSE (IF Strip(Head(row)) # <<>> THEN <<Head(columns) \o <<":">> \o Head(row)>>
          ELSE <<>>)
         \o RowParts(Tail(columns), Tail(row))

\* a slip: the joined row used as it is, without clean_text_basic
RowContentUncleaned(columns, row) == JoinWith(<<" ">>, RowParts(columns, row))

\* cleaned_content = clean_text_basic(" ".join(parts))
RowContent(columns, row) == clean_text_basic(JoinWith(<<" ">>, RowParts(columns, row)))

RowRecord(doc_id, file_name, row_num, cleaned_content) ==
    [doc_id |-> doc_id,
     chunk_id |-> RowChunkId(doc_id, row_num),
     title |-> file_name,
     source |-> file_name,
     file_type |-> "table",
     page_num |-> row_num,
     section_title |-> TableSection,
     content |-> cleaned_content,
     anchor_text |-> RowAnchorOf(cleaned_content),
     chunk_len |-> Len(cleaned_content)]

RECURSIVE ExcelRows(_, _, _, _, _)
\* for index, row in df.iterrows(), from row position i (1-based) on; the
\* frame has the default RangeIndex, so index + 1 is the row's position
ExcelRows(columns, rows, i, file_name, doc_id) ==
    IF i > Len(rows) THEN <<>>
    ELSE LET cleaned_content == RowContent(columns, rows[i])
         IN  (IF cleaned_content = <<>> THEN <<>>
              ELSE <<RowRecord(doc_id, file_name, i, cleaned_content)>>)
             \o ExcelRows(columns, rows, i + 1, file_name, doc_id)

\* corrupt: read_csv / read_excel raises.  Cells are the frame after
\* fillna(''), as strings.
process_excel(data, file_name, doc_id) ==
    IF data.corrupt THEN <<>>
    ELSE ExcelRows(data.columns, data.rows, 1, file_name, doc_id)

----------------------------------------------------------------------------
(* process_txt *)

\* "未知标题"
UnknownTitle == <<"WEI", "ZHI", "BIAO1", "TI">>

UpperCase == <<"D", "F", "L", "O", "P", "R", "T", "U">>
LowerCase == <<"d", "f", "l", "o", "p", "r", "t", "u">>

\* str.lower() on one character, then on a string
LowerChar(c) ==
    IF \E k \in 1..Len(UpperCase) : UpperCase[k] = c
    THEN LowerCase[CHOOSE k \in 1..Len(UpperCase) : UpperCase[k] = c]
    ELSE c

Lower(s) == [k \in 1..Len(s) |-> LowerChar(s[k])]

\* s.split(sep) for a one-character sep
SplitOn(s, sep) == PiecesBetween(s, PositionsIn(s, {sep}))

\* raw_text.splitlines(): the lines between line breaks (a final line break
\* opens no further line)
SplitLines(s) ==
    LET pieces == SplitOn(s, "\n")
    IN  IF pieces[Len(pieces)] = <<>> THEN SubSeq(pieces, 1, Len(pieces) - 1) ELSE pieces

\* ln.split(":", 1)[1].strip() for a line that holds a ":"
AfterFirstColon(ln) ==
    Strip(Drop(ln, PositionsIn(ln, {":"})[1]))

\* lines = [ln.strip() for ln in raw_lines if ln.strip()]
TxtLines(raw_text) ==
    LET raw_lines == [k \in 1..Len(SplitLines(raw_text)) |-> RStrip(SplitLines(raw_text)[k])]
        stripped == [k \in 1..Len(raw_lines) |-> Strip(raw_lines[k])]
    IN  SelectSeq(stripped, LAMBDA ln : ln # <<>>)

IsTitleLine(ln) == StartsWith(Lower(ln), <<"t", "i", "t", "l", "e", ":">>)
IsUrlLine(ln) == StartsWith(Lower(ln), <<"u", "r", "l", ":">>)
IsSeparatorLine(ln) == {ln[k] : k \in 1..Len(ln)} = {"="}

URL_SCAN_LINES == 12
TXT_SECTION_LEN == 50

\* lines 243-250
TxtTitle(lines) ==
    IF lines = <<>> THEN UnknownTitle
    ELSE IF IsTitleLine(lines[1])
         THEN (IF AfterFirstColon(lines[1]) # <<>> THEN AfterFirstColon(lines[1])
               ELSE lines[1])
         ELSE lines[1]

\* lines 252-256
TxtSourceUrl(lines) ==
    LET scanned == Take(lines, URL_SCAN_LINES)
        hits == SelectSeq(scanned, IsUrlLine)
    IN  IF hits = <<>> THEN <<>> ELSE AfterFirstColon(hits[1])

\* whether line idx (1-based here, 0-based in the code) goes into body_lines
IsBodyLine(lines, idx) ==
    /\ idx # 1
    /\ ~IsSeparatorLine(lines[idx])
    /\ ~IsUrlLine(lines[idx])

RECURSIVE TxtBodyLines(_, _)
\* lines 259-267, from line idx on
TxtBodyLines(lines, idx) ==
    IF idx > Len(lines) THEN <<>>
    ELSE (IF IsBodyLine(lines, idx) THEN <<lines[idx]>> ELSE <<>>)
         \o TxtBodyLines(lines, idx + 1)

\* body_text = "\n".join(body_lines) if body_lines else raw_text
TxtBodyText(raw_text) ==
    LET body_lines == TxtBodyLines(TxtLines(raw_text), 1)
    IN  IF body_lines # <<>> THEN JoinWith(<<"\n">>, body_lines) ELSE raw_text

TxtRecord(doc_id, file_name, title, source_url, idx, chunk_text) ==
    [doc_id |-> doc_id,
     chunk_id |-> TxtChunkId(doc_id, idx),
     title |-> title,
     source_url |-> source_url,
     source |-> file_name,
     file_type |-> "txt",
     page_num |-> idx + 1,
     section_title |-> IF title # <<>> THEN Take(title, TXT_SECTION_LEN) ELSE UnknownTitle,
     content |-> chunk_text,
     anchor_text |-> AnchorOf(chunk_text),
     chunk_len |-> Len(chunk_text)]

RECURSIVE TxtChunkRecords(_, _, _, _, _, _)
TxtChunkRecords(chs, idx, doc_id, file_name, title, source_url) ==
    IF chs = <<>> THEN <<>>
    ELSE (IF TooShort(Head(chs)) THEN <<>>
          ELSE <<TxtRecord(doc_id, file_name, title, source_url, idx, Head(chs))>>)
         \o TxtChunkRecords(Tail(chs), idx + 1, doc_id, file_name, title, source_url)

\* corrupt: open() or read() raises
process_txt(data, file_name, doc_id) ==
    IF data.corrupt \/ data.raw_text = <<>> THEN <<>>
    ELSE LET lines == TxtLines(data.raw_text)
             cleaned_text == clean_text_basic(TxtBodyText(data.raw_text))
         IN  IF cleaned_text = <<>> THEN <<>>
             ELSE TxtChunkRecords(
                      semantic_chunking(cleaned_text, CHUNK_SIZE, OVERLAP_SENTENCES),
                      0, doc_id, file_name, TxtTitle(lines), TxtSourceUrl(lines))

----------------------------------------------------------------------------
(* process_docx *)

\* "Word文档"
DocxSection == <<"W", "o", "r", "d", "WEN2", "DANG">>

DocxRecord(doc_id, file_name, idx, chunk_text) ==
    [doc_id |-> doc_id,
     chunk_id |-> DocxChunkId(doc_id, idx),
     title |-> file_name,
     source |-> file_name,
     file_type |-> "docx",
     page_num |-> idx + 1,
     section_title |-> DocxSection,
     content |-> chunk_text,
     anchor_text |-> AnchorOf(chunk_text),
     chunk_len |-> Len(chunk_text)]

RECURSIVE DocxChunkRecords(_, _, _, _)
DocxChunkRecords(chs, idx, doc_id, file_name) ==
    IF chs = <<>> THEN <<>>
    ELSE (IF TooShort(Head(chs)) THEN <<>>
          ELSE <<DocxRecord(doc_id, file_name, idx, Head(chs))>>)
         \o DocxChunkRecords(Tail(chs), idx + 1, doc_id, file_name)

\* "\n".join([p.text for p in doc.paragraphs if p.text and p.text.strip()])
DocxText(paragraphs) ==
    JoinWith(<<"\n">>, SelectSeq(paragraphs, LAMBDA para : para # <<>> /\ Strip(para) # <<>>))

\* corrupt: Document(file_path) raises
process_docx(data, file_name, doc_id) ==
    IF Document = "None" THEN <<>>
    ELSE IF data.corrupt THEN <<>>
    ELSE LET cleaned_text == clean_text_basic(DocxText(data.paragraphs))
         IN  IF cleaned_text = <<>> THEN <<>>
             ELSE DocxChunkRecords(
                      semantic_chunking(cleaned_text, CHUNK_SIZE, OVERLAP_SENTENCES),
                      0, doc_id, file_name)

----------------------------------------------------------------------------
(* main: dispatch *)

\* the file's name within its directory
BaseName(rel_path) ==
    LET pieces == SplitOn(rel_path, "/") IN pieces[Len(pieces)]

\* file_name.lower().split('.')[-1]
FileExt(file_name) ==
    LET pieces == SplitOn(Lower(file_name), ".") IN pieces[Len(pieces)]

\* file_name.startswith('.')
IsHidden(file_name) == StartsWith(file_name, <<".">>)

PdfExts == {<<"p", "d", "f">>}
ExcelExts == {<<"x", "l", "s", "x">>, <<"x", "l", "s">>, <<"c", "s", "v">>}
TxtExts == {<<"t", "x", "t">>}
DocxExts == {<<"d", "o", "c", "x">>}

\* which adapter main() hands a file to: "skip" for a hidden file and for an
\* extension no branch of lines 368-375 takes
AdapterOf(rel_path) ==
    LET file_name == BaseName(rel_path)
        file_ext == FileExt(file_name)
    IN  IF IsHidden(file_name) THEN "skip"
        ELSE IF file_ext \in PdfExts THEN "pdf"
        ELSE IF file_ext \in ExcelExts THEN "excel"
        ELSE IF file_ext \in TxtExts THEN "txt"
        ELSE IF file_ext \in DocxExts THEN "docx"
        ELSE "skip"

----------------------------------------------------------------------------
(* Bounds and inputs of the text machine *)

MaxLen == 4
MaxPieces == 3
MaxChunkSize == 3
MaxOverlap == 2

\* the characters raw texts are drawn from
TextAlphabet == {"a", " ", JU, "\n", BEL}

RECURSIVE SeqsUpTo(_, _)
\* all sequences over S of length at most n
SeqsUpTo(S, n) ==
    IF n = 0 THEN {<<>>}
    ELSE LET shorter == SeqsUpTo(S, n - 1)
         IN  shorter \cup {Append(s, c) : s \in shorter, c \in S}

\* building blocks of longer raw texts
TextPieces ==
    {<<"a", JU>>, <<"b", "b", TAN>>, <<" ">>, <<"\n">>, <<BEL>>, <<"c">>}

\* three sentences of length 6
ExampleS1 == <<"a", "a", "a", "a", "a", JU>>
ExampleS2 == <<"b", "b", "b", "b", "b", TAN>>
ExampleS3 == <<"c", "c", "c", "c", "c", WEN>>
ExampleText == ExampleS1 \o ExampleS2 \o ExampleS3

RawTexts ==
    SeqsUpTo(TextAlphabet, MaxLen)
    \cup {Join(ps) : ps \in SeqsUpTo(TextPieces, MaxPieces)}
    \cup {ExampleText}

\* 10 is the chunk_size of the three-sentence example
ChunkSizes == (1..MaxChunkSize) \cup {10}
Overlaps == 0..MaxOverlap

----------------------------------------------------------------------------
(* The text machine: one unit's text through clean_text_basic and           *)
(* semantic_chunking, the loop of semantic_chunking taken one sentence at a  *)
(* time.                                                                     *)

\* OUTPUT_FILE before the first run has written it
NoOutputFile == [exists |-> FALSE, records |-> <<>>]

\* the third-party libraries of the format adapters: pdfplumber, pandas and
\* python-docx (imported as docx)
Libraries == {"pdfplumber", "pandas", "docx"}

\* the Qdrant collection before it is created, and offline_indexing.py
\* before it is started
NoCollection == [exists |-> FALSE, points |-> {}]
IndexerIdle == [pc |-> "idle", records |-> <<>>, vectors |-> <<>>, start |-> 0,
                batch_size |-> 0, distance |-> <<>>, recreate |-> FALSE, run |-> 0]
IndexIdle ==
    /\ collection = NoCollection
    /\ indexer = IndexerIdle

\* reptile.py, lines 22, 30 and 32
START_PAGE == 9
MAX_RETRIES_PER_PAGE == 3
MAX_CONSECUTIVE_FAILURES == 5

\* reptile.py before its loop, lines 95-100: attempt is the number of the
\* next request for the page at hand; pages is a history of the pages done
\* with, each with what fetch_html came to and the requests it cost
CrawlerStart ==
    [pc |-> "loop", page_index |-> START_PAGE, consecutive_failures |-> 0,
     attempt |-> 1, pages |-> <<>>]
CrawlIdle == crawler = [CrawlerStart EXCEPT !.pc = "idle"]

PipeIdle ==
    /\ Document = "None"
    /\ tree = {}
    /\ pending = {}
    /\ all_data = <<>>
    /\ output_file = NoOutputFile
    /\ phase = "idle"
    /\ installed = Libraries
    /\ IndexIdle
    /\ CrawlIdle

InitText ==
    /\ raw \in RawTexts
    /\ CHUNK_SIZE \in ChunkSizes
    /\ OVERLAP_SENTENCES \in Overlaps
    /\ MIN_CHUNK_SIZE = 0
    /\ text = <<>>
    /\ sentences = <<>>
    /\ pos = 0
    /\ current_chunk = <<>>
    /\ current_len = 0
    /\ chunks = <<>>
    /\ flushed = <<>>
    /\ pc = "raw"
    /\ PipeIdle

\* cleaned_text = clean_text_basic(text)
Clean ==
    /\ pc = "raw"
    /\ text' = clean_text_basic(raw)
    /\ pc' = "clean"
    /\ UNCHANGED <<cfgvars, crawlvars, envvars, idxvars, pipevars, raw, sentences, pos,
                   current_chunk, current_len, chunks, flushed>>

\* semantic_chunking, lines 74-78
ChunkStart ==
    /\ pc = "clean"
    /\ sentences' = split_sentences(text)
    /\ pos' = 1
    /\ current_chunk' = ChunkLoopInit.current_chunk
    /\ current_len' = ChunkLoopInit.current_len
    /\ chunks' = ChunkLoopInit.chunks
    /\ flushed' = ChunkLoopInit.flushed
    /\ pc' = "loop"
    /\ UNCHANGED <<cfgvars, crawlvars, envvars, idxvars, pipevars, raw, text>>

LoopState ==
    [current_chunk |-> current_chunk, current_len |-> current_len,
     chunks |-> chunks, flushed |-> flushed]

SetLoopState(st) ==
    /\ current_chunk' = st.current_chunk
    /\ current_len' = st.current_len
    /\ chunks' = st.chunks
    /\ flushed' = st.flushed

\* semantic_chunking, one iteration of lines 80-97
ChunkIterate ==
    /\ pc = "loop"
    /\ pos <= Len(sentences)
    /\ SetLoopState(ChunkLoopBody(LoopState, sentences[pos], CHUNK_SIZE, OVERLAP_SENTENCES))
    /\ pos' = pos + 1
    /\ UNCHANGED <<cfgvars, crawlvars, envvars, idxvars, pipevars, raw, text, sentences, pc>>

\* semantic_chunking, lines 99-103
ChunkFinish ==
    /\ pc = "loop"
    /\ pos > Len(sentences)
    /\ SetLoopState(ChunkLoopEnd(LoopState))
    /\ pc' = "done"
    /\ UNCHANGED <<cfgvars, crawlvars, envvars, idxvars, pipevars, raw, text, sentences, pos>>

NextText == Clean \/ ChunkStart \/ ChunkIterate \/ ChunkFinish

SpecText == InitText /\ [][NextText]_vars

\* the step-wise loop computes what the operator computes
StepwiseAgrees ==
    pc = "done" => chunks = semantic_chunking(text, CHUNK_SIZE, OVERLAP_SENTENCES)

----------------------------------------------------------------------------
(* Inputs of the pipeline: configurations and raw-data trees *)

MaxFiles == 2

DEFAULT_CHUNK_SIZE == 500
DEFAULT_MIN_CHUNK_SIZE == 50
DEFAULT_OVERLAP_SENTENCES == 2

\* <<CHUNK_SIZE, MIN_CHUNK_SIZE, OVERLAP_SENTENCES>>: the values of lines
\* 24-26, and a small configuration
DefaultConfig == <<DEFAULT_CHUNK_SIZE, DEFAULT_MIN_CHUNK_SIZE, DEFAULT_OVERLAP_SENTENCES>>
SmallConfig == <<8, 4, 1>>
PipeConfigs == {DefaultConfig, SmallConfig}

\* s * n
Rep(s, n) == [k \in 1..(n * Len(s)) |-> s[((k - 1) % Len(s)) + 1]]

Page(t) == [text |-> t, raises |-> FALSE]
PageRaises == [text |-> <<>>, raises |-> TRUE]
PageEmpty == Page(<<>>)

\* u1, u2, u3 of the section example: no marker, "第一章 总则...", no marker
PageU1 == Page(Rep(<<"b">>, 50) \o <<JU>>)
PageU2 == Page(<<DI, YI, ZHANG, " ", ZONG, ZE>> \o Rep(<<"a">>, 50) \o <<JU>>)
PageU3 == Page(Rep(<<"c">>, 50) \o <<JU>>)
\* "1.1 ..." on a line of its own
PageNumbered == Page(<<"1", ".", "1", "\n">> \o Rep(<<"d">>, 50) \o <<JU>>)
\* lengths MIN_CHUNK_SIZE - 1 and MIN_CHUNK_SIZE, for both configurations
Page3 == Page(<<"a", "a", JU>>)
Page4 == Page(<<"a", "a", "a", JU>>)
Page49 == Page(<<"h">> \o Rep(<<"a">>, 48))
Page50 == Page(<<"h">> \o Rep(<<"a">>, 49))
\* several chunks under the small configuration
PageMulti == Page(<<"a", "a", "a", JU, " ", "b", "b", "b", TAN, "c", "c", "c", WEN>>)

PdfData(pages) == [corrupt |-> FALSE, pages |-> pages]
CorruptPdf == [corrupt |-> TRUE, pages |-> <<>>]

TableData(rows) == [corrupt |-> FALSE, columns |-> <<<<"k">>, <<"v">>>>, rows |-> rows]

TxtData(raw_text) == [corrupt |-> FALSE, raw_text |-> raw_text]

DocxData(paragraphs) == [corrupt |-> FALSE, paragraphs |-> paragraphs]

SectionDoc == PdfData(<<PageU1, PageU2, PageU3>>)
FailingDoc == PdfData(<<PageU1, PageRaises, PageU3>>)
LengthsDoc == PdfData(<<Page3, Page4, PageEmpty, Page49, Page50, PageMulti>>)
PlainDoc == PdfData(<<PageU1>>)
NumberedDoc == PdfData(<<PageNumbered, PageU3>>)

LogTable ==
    TableData(<<<<<<"x">>, <<"y">>>>, <<<<>>, <<>>>>, <<<<"x", " ", " ", "y">>, <<>>>>,
                <<<<" ">>, <<>>>>, <<Rep(<<"x">>, 60), <<"y", JU>>>>>>)

\* a title line, a separator line, a URL: line, then the body
HeaderedText ==
    TxtData(<<"T", "\n", "=", "=", "\n", "U", "R", "L", ":", " ", "h", "\n">>
            \o <<"a", "a", "a", JU, "b", "b", "b", TAN, "\n">> \o Rep(<<"c">>, 60))

WordDoc == DocxData(<<<<"a", "a", "a", JU>>, <<" ">>, Rep(<<"b">>, 55) \o <<JU>>>>)

File(rel_path, data) == [rel_path |-> rel_path, data |-> data]

PathA == <<"a", ".", "p", "d", "f">>
PathDirA == <<"d", "/", "a", ".", "p", "d", "f">>
\* a path with the digest of PathA
PathAAA == <<"a", "a", "a", ".", "p", "d", "f">>
PathUpper == <<"b", ".", "P", "D", "F">>
PathCsv == <<"t", ".", "c", "s", "v">>
PathTxt == <<"n", ".", "t", "x", "t">>
PathDocx == <<"w", ".", "d", "o", "c", "x">>
PathOther == <<"x", ".", "m", "d">>
PathHidden == <<".", "h", ".", "p", "d", "f">>

FileUniverse ==
    {File(PathA, SectionDoc), File(PathA, FailingDoc), File(PathA, LengthsDoc),
     File(PathDirA, PlainDoc), File(PathAAA, NumberedDoc), File(PathUpper, CorruptPdf),
     File(PathCsv, LogTable), File(PathTxt, HeaderedText), File(PathDocx, WordDoc),
     File(PathOther, TxtData(<<"a">>)), File(PathHidden, PlainDoc)}

\* a raw-data tree: at most MaxFiles files, no two with the same path
Trees ==
    {t \in SUBSET FileUniverse :
        /\ Cardinality(t) <= MaxFiles
        /\ \A f, g \in t : f.rel_path = g.rel_path => f = g}

----------------------------------------------------------------------------
(* The pipeline: runs of main() over one raw-data tree *)

TextIdle ==
    /\ raw = <<>>
    /\ text = <<>>
    /\ sentences = <<>>
    /\ pos = 0
    /\ current_chunk = <<>>
    /\ current_len = 0
    /\ chunks = <<>>
    /\ flushed = <<>>
    /\ pc = "idle"

Init ==
    /\ \E cfg \in PipeConfigs :
          /\ CHUNK_SIZE = cfg[1]
          /\ MIN_CHUNK_SIZE = cfg[2]
          /\ OVERLAP_SENTENCES = cfg[3]
    /\ installed \in SUBSET Libraries
    /\ Document = "unbound"
    /\ tree \in Trees
    /\ pending = tree
    /\ all_data = <<>>
    /\ output_file = NoOutputFile
    /\ phase = "import"
    /\ TextIdle
    /\ IndexIdle
    /\ CrawlIdle

\* lines 3-15, the imports: a missing pdfplumber or pandas raises
\* ModuleNotFoundError at line 8 or 9 and the script ends there; a missing
\* docx is caught and binds Document to None
ImportModules ==
    /\ phase = "import"
    /\ IF {"pdfplumber", "pandas"} \subseteq installed
       THEN /\ Document' = IF "docx" \in installed THEN "docx.Document" ELSE "None"
            /\ phase' = "walk"
       ELSE /\ phase' = "failed"
            /\ UNCHANGED Document
    /\ UNCHANGED <<cfgvars, crawlvars, envvars, idxvars, textvars, tree, pending, all_data, output_file>>

Visit(f, adapter, results) ==
    /\ phase = "walk"
    /\ f \in pending
    /\ AdapterOf(f.rel_path) = adapter
    /\ all_data' = all_data \o results
    /\ pending' = pending \ {f}
    /\ UNCHANGED <<cfgvars, crawlvars, envvars, idxvars, textvars, Document, tree, output_file, phase>>

\* all_data.extend(process_pdf(file_path, rel_path, doc_id))
ProcessPdfFile ==
    \E f \in pending :
        Visit(f, "pdf", process_pdf(f.data, f.rel_path, generate_doc_id(f.rel_path)))

\* all_data.extend(process_excel(file_path, rel_path, doc_id))
ProcessExcelFile ==
    \E f \in pending :
        Visit(f, "excel", process_excel(f.data, f.rel_path, generate_doc_id(f.rel_path)))

\* all_data.extend(process_txt(file_path, rel_path, doc_id))
ProcessTxtFile ==
    \E f \in pending :
        Visit(f, "txt", process_txt(f.data, f.rel_path, generate_doc_id(f.rel_path)))

\* all_data.extend(process_docx(file_path, rel_path, doc_id))
ProcessDocxFile ==
    \E f \in pending :
        Visit(f, "docx", process_docx(f.data, f.rel_path, generate_doc_id(f.rel_path)))

\* a hidden file, or an extension no branch takes
SkipFile ==
    \E f \in pending : Visit(f, "skip", <<>>)

\* lines 377-382: the walk is over, all_data is written to OUTPUT_FILE
Save ==
    /\ phase = "walk"
    /\ pending = {}
    /\ output_file' = [exists |-> TRUE, records |-> all_data]
    /\ phase' = "saved"
    /\ UNCHANGED <<cfgvars, crawlvars, envvars, idxvars, textvars, Document, tree, pending, all_data>>

\* the script is run again on the unchanged tree; OUTPUT_FILE still holds
\* what the run before wrote
Rerun ==
    /\ phase = "saved"
    /\ all_data' = <<>>
    /\ pending' = tree
    /\ Document' = "unbound"
    /\ phase' = "import"
    /\ UNCHANGED <<cfgvars, crawlvars, envvars, idxvars, textvars, tree, output_file>>

Next ==
    \/ ImportModules
    \/ ProcessPdfFile
    \/ ProcessExcelFile
    \/ ProcessTxtFile
    \/ ProcessDocxFile
    \/ SkipFile
    \/ Save
    \/ Rerun

Spec == Init /\ [][Next]_vars

----------------------------------------------------------------------------
(* The tabular adapter on its own: one table, any rows over CellValues *)

MaxRows == 2

\* cell values after fillna(''): empty, blank, plain, with one inner space,
\* with a run of spaces, with a control character
CellValues ==
    {<<>>, <<" ">>, <<"x">>, <<"x", " ", "y">>, <<"x", " ", " ", "y">>, <<"x", BEL>>}

TableRows == {<<k, v>> : k \in CellValues, v \in CellValues}

\* 3 non-empty rows and 1 fully-empty row
ExampleRows ==
    <<<<<<"x">>, <<"y">>>>, <<<<>>, <<>>>>, <<<<"x", " ", "y">>, <<>>>>, <<<<>>, <<"y">>>>>>

InitTable ==
    /\ \E cfg \in PipeConfigs :
          /\ CHUNK_SIZE = cfg[1]
          /\ MIN_CHUNK_SIZE = cfg[2]
          /\ OVERLAP_SENTENCES = cfg[3]
    /\ Document = "docx.Document"
    /\ \E rows \in SeqsUpTo(TableRows, MaxRows) \cup {ExampleRows} :
          tree = {File(PathCsv, TableData(rows))}
    /\ pending = tree
    /\ all_data = <<>>
    /\ output_file = NoOutputFile
    /\ phase = "walk"
    /\ installed = Libraries
    /\ TextIdle
    /\ IndexIdle
    /\ CrawlIdle

NextTable == ProcessExcelFile \/ Save

SpecTable == InitTable /\ [][NextTable]_vars

----------------------------------------------------------------------------
(* Claims about the text machine (SpecText) *)

Chunked == pc = "done"

\* C1: with overlap = 1 every chunk after the first begins with the last
\* sentence of the chunk emitted just before it, and three sentences of
\* length 6 with chunk_size = 10 yield exactly [s1], [s1,s2], [s2,s3].
C1_OverlapOne ==
    OVERLAP_SENTENCES = 1 =>
        /\ \A k \in 2..Len(chunks) :
              /\ flushed[k][1] = flushed[k - 1][Len(flushed[k - 1])]
              /\ StartsWith(chunks[k], flushed[k - 1][Len(flushed[k - 1])])
        /\ (Chunked /\ raw = ExampleText /\ CHUNK_SIZE = 10) =>
              chunks = <<ExampleS1, ExampleS1 \o ExampleS2, ExampleS2 \o ExampleS3>>

C1_Witness ==
    /\ Chunked
    /\ OVERLAP_SENTENCES = 1
    /\ raw = ExampleText
    /\ CHUNK_SIZE = 10
    /\ Len(chunks) = 3

RECURSIVE DropSpacesAfterTerminators(_, _)
\* t without the spaces that directly follow a 。！？ (after is TRUE while
\* only spaces have been read since such a mark)
DropSpacesAfterTerminators(t, after) ==
    IF t = <<>> THEN <<>>
    ELSE IF Head(t) = " " /\ after THEN DropSpacesAfterTerminators(Tail(t), TRUE)
    ELSE <<Head(t)>> \o DropSpacesAfterTerminators(Tail(t), Head(t) \in AnchorTerminators)

HasSpaceAfterTerminator(t) ==
    \E k \in 1..(Len(t) - 1) : t[k] \in AnchorTerminators /\ t[k + 1] = " "

Split == pc \in {"loop", "done"}

\* C3 (as stated): concatenating split_sentences(T) reproduces the normalized
\* text T exactly.
C3_Original == Split => Join(sentences) = text

\* C3 (amended): concatenating split_sentences(T) reproduces the normalized
\* text T with the spaces that directly follow a 。！？ removed, hence T itself
\* when no space directly follows such a mark.
C3_LosslessUpToBoundarySpaces ==
    Split =>
        /\ Join(sentences) = DropSpacesAfterTerminators(text, FALSE)
        /\ ~HasSpaceAfterTerminator(text) => Join(sentences) = text

C3_Witness ==
    /\ Split
    /\ HasSpaceAfterTerminator(text)
    /\ Len(sentences) >= 2
    /\ Join(sentences) # text

----------------------------------------------------------------------------
(* Claims about the pipeline (Spec) *)

\* the records of the current run and those OUTPUT_FILE holds
Listings == {all_data, output_file.records}
Emitted == UNION {{l[k] : k \in 1..Len(l)} : l \in Listings}

FileAt(rel_path) == CHOOSE f \in tree : f.rel_path = rel_path

\* the records of listing l that come from the file at rel_path, in order
RecordsFrom(l, rel_path) == SelectSeq(l, LAMBDA r : r.source = rel_path)

\* C2 (as stated): every record of the output, whichever adapter produced
\* it, has content length >= min_chunk_size.
C2_MinLengthAllAdapters == \A r \in Emitted : Len(r.content) >= MIN_CHUNK_SIZE

\* "第一章 总则"
ChapterGeneralProvisions == <<DI, YI, ZHANG, " ", ZONG, ZE>>

\* C4 (as stated): for the document u1 (no marker), u2 ("第一章 总则..."),
\* u3 (no marker), the records of u1 carry the sentinel label and the
\* records of u2 and u3 carry "第一章 总则".
C4_SectionExample ==
    \A r \in Emitted :
        (r.file_type = "pdf" /\ FileAt(r.source).data.pages = <<PageU1, PageU2, PageU3>>) =>
            /\ r.page_num = 1 => r.section_title = UnknownSection
            /\ r.page_num \in {2, 3} => r.section_title = ChapterGeneralProvisions

\* the pages of a document, up to page n, whose text shows a heading
HeadingPages(pages, n) ==
    SelectSeq(Indices(pages),
              LAMBDA k : k <= n /\ pages[k].text # <<>> /\ extract_title(pages[k].text) # <<>>)

\* the label a record of page n must carry: that of the latest heading of
\* its own document up to page n, the sentinel if there is none
SectionWithin(pages, n) ==
    LET hs == HeadingPages(pages, n)
    IN  IF hs = <<>> THEN UnknownSection ELSE extract_title(pages[hs[Len(hs)]].text)

\* C5: the section label starts at the sentinel in every document and a label
\* detected in one document never appears on a record of another; the records
\* of a document are the same whatever was processed before it.
C5_NoSectionLeak ==
    /\ \A r \in Emitted :
          r.file_type = "pdf" =>
              r.section_title = SectionWithin(FileAt(r.source).data.pages, r.page_num)
    /\ \A l1, l2 \in Listings : \A f \in tree :
          (f \notin pending /\ RecordsFrom(l1, f.rel_path) # <<>>
              /\ RecordsFrom(l2, f.rel_path) # <<>>) =>
              RecordsFrom(l1, f.rel_path) = RecordsFrom(l2, f.rel_path)

\* a document without heading is processed right after one that ended under
\* a detected label
C5_Witness ==
    \E k \in 1..(Len(all_data) - 1) :
        /\ all_data[k].file_type = "pdf"
        /\ all_data[k + 1].file_type = "pdf"
        /\ all_data[k].source # all_data[k + 1].source
        /\ all_data[k].section_title # UnknownSection
        /\ all_data[k + 1].section_title = UnknownSection

Ids(l) == {<<l[k].source, l[k].page_num, l[k].content, l[k].doc_id, l[k].chunk_id>> :
              k \in 1..Len(l)}

\* C6: doc_id depends only on the relative path, and two runs over the same
\* unchanged tree emit identical doc_id and chunk_id values for every record,
\* in whatever order the files are visited.
C6_DeterministicIds ==
    /\ \A r1, r2 \in Emitted : r1.source = r2.source => r1.doc_id = r2.doc_id
    /\ (output_file.exists /\ pending = {}) => Ids(all_data) = Ids(output_file.records)

\* a second run has walked the tree in another order than the run that
\* wrote OUTPUT_FILE
C6_Witness ==
    /\ output_file.exists
    /\ phase = "walk"
    /\ pending = {}
    /\ all_data # output_file.records
    /\ \E j, k \in 1..Len(all_data) : all_data[j].source # all_data[k].source

DistinctDocIds ==
    \A f, g \in tree :
        f.rel_path # g.rel_path => generate_doc_id(f.rel_path) # generate_doc_id(g.rel_path)

\* C7: within one run no two emitted records have the same chunk_id, given
\* that distinct relative paths get distinct doc_ids.
C7_UniqueChunkIds ==
    DistinctDocIds =>
        \A l \in Listings : \A j, k \in 1..Len(l) :
            j # k => l[j].chunk_id # l[k].chunk_id

\* records of two documents, two of them chunks of one page
C7_Witness ==
    /\ DistinctDocIds
    /\ \E j, k \in 1..Len(all_data) :
          /\ j # k
          /\ all_data[j].source = all_data[k].source
          /\ all_data[j].file_type = "pdf"
          /\ all_data[j].page_num = all_data[k].page_num
    /\ \E j, k \in 1..Len(all_data) : all_data[j].source # all_data[k].source

\* C8: for every emitted record of every adapter, anchor_text is a prefix of
\* content, so it is never longer than content.
C8_AnchorIsPrefix ==
    \A r \in Emitted :
        /\ StartsWith(r.content, r.anchor_text)
        /\ Len(r.anchor_text) <= Len(r.content)

\* a pdf record whose anchor is the 30-character cut-off, a record whose
\* anchor ends at a mark before the end of content, and a table record whose
\* anchor is shorter than its content have been emitted
C8_Witness ==
    /\ \E r \in Emitted :
          /\ r.file_type = "pdf"
          /\ Len(r.anchor_text) = ANCHOR_FALLBACK_LEN
          /\ Len(r.content) > ANCHOR_FALLBACK_LEN
    /\ \E r \in Emitted :
          /\ r.anchor_text # r.content
          /\ r.anchor_text # <<>>
          /\ r.anchor_text[Len(r.anchor_text)] \in AnchorTerminators
    /\ \E r \in Emitted : r.file_type = "table" /\ r.anchor_text # r.content

\* the adapter fails on the file: the library raises on opening it or on one
\* of its pages
AdapterFails(f) ==
    \/ AdapterOf(f.rel_path) # "skip" /\ f.data.corrupt
    \/ AdapterOf(f.rel_path) = "pdf" /\ \E k \in 1..Len(f.data.pages) : f.data.pages[k].raises

\* C9 (as stated): a file whose adapter fails while parsing it, at any unit,
\* contributes zero records to the output.
C9_FailedFileContributesNothing ==
    \A f \in tree : AdapterFails(f) => \A r \in Emitted : r.source # f.rel_path

----------------------------------------------------------------------------
(* Claims about the tabular adapter (SpecTable) *)

TheTable == (CHOOSE f \in tree : TRUE).data

Walked == pending = {}

\* the "column:value" tokens of the cells of a row that pass Keep, joined by
\* single spaces
JoinedTokens(columns, row, Keep(_)) ==
    LET cells == SelectSeq(Indices(row), LAMBDA k : Keep(row[k]))
    IN  JoinWith(<<" ">>, [j \in 1..Len(cells) |-> columns[cells[j]] \o <<":">> \o row[cells[j]]])

NonEmpty(val) == val # <<>>
NonBlank(val) == \E k \in 1..Len(val) : ~IsSpace(val[k])

RowsWith(rows, Keep(_)) == {i \in 1..Len(rows) : \E k \in 1..Len(rows[i]) : Keep(rows[i][k])}

Normalized(val) == clean_text_basic(val) = val

----------------------------------------------------------------------------
(* Further claims about the pipeline (Spec) *)

HasTerminator(s) == \E k \in 1..Len(s) : s[k] \in AnchorTerminators

\* p is a prefix of s that ends at the first sentence-terminating mark of s
EndsAtFirstTerminator(s, p) ==
    /\ StartsWith(s, p)
    /\ p # <<>>
    /\ p[Len(p)] \in AnchorTerminators
    /\ \A k \in 1..(Len(p) - 1) : p[k] \notin AnchorTerminators

\* C11 (as stated): in every emitted record, of every adapter, anchor_text
\* is the shortest prefix of content ending at the first sentence-terminating
\* mark when content has one, and the first 30 characters of content
\* otherwise.
C11_AnchorIsFirstSentence ==
    \A r \in Emitted :
        IF HasTerminator(r.content)
        THEN EndsAtFirstTerminator(r.content, r.anchor_text)
        ELSE r.anchor_text = Take(r.content, ANCHOR_FALLBACK_LEN)

\* the same statement for the records of the adapters that chunk text
C11_HoldsOffTables ==
    \A r \in Emitted :
        r.file_type # "table" =>
            IF HasTerminator(r.content)
            THEN EndsAtFirstTerminator(r.content, r.anchor_text)
            ELSE r.anchor_text = Take(r.content, ANCHOR_FALLBACK_LEN)

----------------------------------------------------------------------------
(* The plain-text adapter on its own: one file, any lines over TxtLineValues *)

MaxLines == 3

\* lines of a text file: a sentence, words without a mark, a blank line, a
\* separator, URL: lines in both cases, a "title:" line, a one-letter line
TxtLineValues ==
    {<<"a", "a", "a", JU>>, <<"b", "b", "b", "b">>, <<>>, <<"=", "=">>,
     <<"U", "R", "L", ":", "h">>, <<"u", "r", "l", ":", "h">>,
     <<"t", "i", "t", "l", "e", ":", "T">>, <<"T">>}

\* the files whose lines are ls
TxtFileOf(ls) == JoinWith(<<"\n">>, ls)

TxtLineSeqs == SeqsUpTo(TxtLineValues, MaxLines)

InitTxt ==
    /\ \E cfg \in PipeConfigs :
          /\ CHUNK_SIZE = cfg[1]
          /\ MIN_CHUNK_SIZE = cfg[2]
          /\ OVERLAP_SENTENCES = cfg[3]
    /\ Document = "docx.Document"
    /\ \E ls \in TxtLineSeqs : tree = {File(PathTxt, TxtData(TxtFileOf(ls)))}
    /\ pending = tree
    /\ all_data = <<>>
    /\ output_file = NoOutputFile
    /\ phase = "walk"
    /\ installed = Libraries
    /\ TextIdle
    /\ IndexIdle
    /\ CrawlIdle

NextTxt == ProcessTxtFile \/ Save

SpecTxt == InitTxt /\ [][NextTxt]_vars

----------------------------------------------------------------------------
(* Claims about the plain-text adapter (SpecTxt) *)

TheText == (CHOOSE f \in tree : TRUE).data.raw_text

\* the non-blank lines of the file, stripped
TheLines == TxtLines(TheText)

\* the structured header: a title line, then a separator line, then a URL:
\* line
HasHeader(lines) ==
    /\ Len(lines) >= 3
    /\ IsSeparatorLine(lines[2])
    /\ IsUrlLine(lines[3])

\* the chunks of body text t that are long enough to be emitted
EmittedChunksOf(t) ==
    SelectSeq(semantic_chunking(clean_text_basic(t), CHUNK_SIZE, OVERLAP_SENTENCES),
              LAMBDA c : Len(c) >= MIN_CHUNK_SIZE)

ContentsOf(l) == [k \in 1..Len(l) |-> l[k].content]

\* C12 (as stated): for a file without the structured header the whole file,
\* its first line included, is chunked as body text, and every record carries
\* the sentinel title.
C12_HeaderlessWholeFile ==
    (Walked /\ ~HasHeader(TheLines)) =>
        /\ ContentsOf(all_data) = EmittedChunksOf(TheText)
        /\ \A k \in 1..Len(all_data) :
              /\ all_data[k].title = UnknownTitle
              /\ all_data[k].section_title = UnknownTitle

----------------------------------------------------------------------------
(* Further claims about the pipeline (Spec), continued *)

ElementsOf(s) == {s[k] : k \in 1..Len(s)}

\* the chunks cut from unit text t
ChunksOfUnit(t) ==
    ElementsOf(semantic_chunking(clean_text_basic(t), CHUNK_SIZE, OVERLAP_SENTENCES))

\* C13 (as stated): page_num is the 1-based index of the unit the chunk was
\* cut from: the page of a paginated document, the row of a table, and 1 for
\* plain-text and rich-text documents, whose body is a single unit; so all
\* chunks of one unit carry the same page_num.
C13_PageNumIsUnitIndex ==
    \A r \in Emitted :
        LET data == FileAt(r.source).data
        IN  CASE r.file_type = "pdf" ->
                     /\ r.page_num \in 1..Len(data.pages)
                     /\ r.content \in ChunksOfUnit(data.pages[r.page_num].text)
              [] r.file_type = "table" ->
                     /\ r.page_num \in 1..Len(data.rows)
                     /\ r.content = RowContent(data.columns, data.rows[r.page_num])
              [] OTHER -> r.page_num = 1

\* the library the adapter of a format depends on ("none": built-ins only)
LibraryOf(adapter) ==
    CASE adapter = "pdf" -> "pdfplumber"
      [] adapter = "excel" -> "pandas"
      [] adapter = "docx" -> "docx"
      [] OTHER -> "none"

\* what the adapter of file f returns for it
AdapterResult(f) ==
    LET doc_id == generate_doc_id(f.rel_path)
        adapter == AdapterOf(f.rel_path)
    IN  CASE adapter = "pdf" -> process_pdf(f.data, f.rel_path, doc_id)
          [] adapter = "excel" -> process_excel(f.data, f.rel_path, doc_id)
          [] adapter = "txt" -> process_txt(f.data, f.rel_path, doc_id)
          [] adapter = "docx" -> process_docx(f.data, f.rel_path, doc_id)
          [] OTHER -> <<>>

Unavailable(f) == LibraryOf(AdapterOf(f.rel_path)) \in Libraries \ installed

\* C14 (as stated): for every adapter, when the library of its format is
\* unavailable the run is not aborted: it completes, the files of that format
\* yield zero records and the files of the other formats are processed.
C14_MissingLibraryDegrades ==
    /\ phase # "failed"
    /\ phase = "saved" =>
          \A f \in tree :
              RecordsFrom(output_file.records, f.rel_path) =
                  IF Unavailable(f) THEN <<>> ELSE AdapterResult(f)

\* the same statement for the one library whose import is guarded
C14_HoldsForDocx ==
    (installed = Libraries \ {"docx"}) =>
        /\ phase # "failed"
        /\ phase = "saved" =>
              \A f \in tree :
                  RecordsFrom(output_file.records, f.rel_path) =
                      IF Unavailable(f) THEN <<>> ELSE AdapterResult(f)

----------------------------------------------------------------------------
(* offline_indexing.py: the records of OUTPUT_FILE upserted into a Qdrant    *)
(* collection, one client.upsert per batch                                   *)

MaxRecords == 2
MaxBatch == 2
MaxIndexRuns == 2

\* the characters of chunk ids, in code-point order; ord(c) is modelled by the
\* position in this table
IdChars ==
    <<"0", "1", "2", "3", "4", "5", "6", "7", "8", "9", "_",
      "a", "b", "c", "d", "e", "f", "o", "r", "t", "w", "x">>

IdOrd(c) == CHOOSE k \in 1..Len(IdChars) : IdChars[k] = c

RECURSIVE Sha1Of(_, _)
\* the digest uuid5 takes of the namespace followed by the name, read left to
\* right from state h: a function of the bytes alone with a fixed-width
\* result, not injective
Sha1Of(name, h) ==
    IF name = <<>> THEN h ELSE Sha1Of(Tail(name), (h * 31 + IdOrd(Head(name))) % 256)

\* a slip: an identifier drawn anew by every invocation of the script
\* (uuid4-like)
_stable_id_PerRun(chunk_id) == HexDigest(Sha1Of(chunk_id, 5 + indexer.run))

\* str(uuid.uuid5(uuid.NAMESPACE_URL, chunk_id))
_stable_id(chunk_id) == HexDigest(Sha1Of(chunk_id, 5))

\* _encode_vectors: the embedding model is a fixed function of the text
EncodeVector(t) == <<Len(t)>>

\* Record(chunk_id, content, payload, vector) of _load_records without
\* --vector-field
LoadRecord(obj) ==
    [chunk_id |-> obj.chunk_id, content |-> obj.content, payload |-> obj, vector |-> "None"]

\* _load_records over the lines of the input file
_load_records(objs) == [k \in 1..Len(objs) |-> LoadRecord(objs[k])]

\* qmodels.PointStruct(id, vector, payload)
PointStruct(rec, vec) == [id |-> _stable_id(rec.chunk_id), vector |-> vec, payload |-> rec.payload]

RECURSIVE UpsertPoints(_, _)
\* client.upsert: each point replaces the stored point of its id, or is added
\* when the id is new
UpsertPoints(points, batch) ==
    IF batch = <<>> THEN points
    ELSE UpsertPoints({p \in points : p.id # Head(batch).id} \cup {Head(batch)}, Tail(batch))

\* the points of records[start:end], start 0-based
BatchPoints(records, vectors, start, end) ==
    [k \in 1..(end - start) |-> PointStruct(records[start + k], vectors[start + k])]

Min(a, b) == IF a < b THEN a ELSE b

\* records of an input file: two rows of one table, a chunk id whose uuid
\* equals that of the first row, and two texts
IndexChunkIds ==
    {<<"5", "3", "_", "r", "o", "w", "_", "1">>, <<"5", "3", "_", "r", "o", "w", "_", "2">>,
     <<"c", "a", "_", "r", "o", "w", "_", "1">>}
IndexContents == {<<"a">>, <<"b", "b">>}
IndexObjects == {[chunk_id |-> c, content |-> t] : c \in IndexChunkIds, t \in IndexContents}

InitIndex ==
    /\ CHUNK_SIZE = DEFAULT_CHUNK_SIZE
    /\ MIN_CHUNK_SIZE = DEFAULT_MIN_CHUNK_SIZE
    /\ OVERLAP_SENTENCES = DEFAULT_OVERLAP_SENTENCES
    /\ Document = "None"
    /\ tree = {}
    /\ pending = {}
    /\ all_data = <<>>
    /\ output_file \in {NoOutputFile}
                       \cup {[exists |-> TRUE, records |-> objs] :
                                objs \in SeqsUpTo(IndexObjects, MaxRecords)}
    /\ phase = "saved"
    /\ installed = Libraries
    /\ TextIdle
    /\ IndexIdle
    /\ CrawlIdle

\* the keys of the dist table, lines 171-175
DistanceNames == {<<"c", "o", "s", "i", "n", "e">>, <<"d", "o", "t">>,
                  <<"e", "u", "c", "l", "i", "d">>}

\* values of --distance: the three names, one in upper case, and a name the
\* table does not hold
DistanceArgs == DistanceNames \cup {<<"D", "O", "T">>, <<"l", "2">>}

\* _ensure_qdrant_collection: the collection is deleted first under
\* --recreate; an existing collection is left as it is; otherwise the
\* distance is looked up (ValueError for a name the table does not hold) and
\* the collection created empty.  The result is the collection after the
\* call and whether the call raised.
EnsureCollection(coll, distance, recreate) ==
    LET kept == IF recreate /\ coll.exists THEN NoCollection ELSE coll
    IN  IF kept.exists THEN [collection |-> kept, raised |-> FALSE]
        ELSE IF Lower(distance) \notin DistanceNames
        THEN [collection |-> kept, raised |-> TRUE]
        ELSE [collection |-> [exists |-> TRUE, points |-> {}], raised |-> FALSE]

\* main(), lines 284-317: the arguments, the input file, the vectors and the
\* collection.  A missing input file returns 2, an input without records 0;
\* a ValueError of _ensure_qdrant_collection ends the script.
IndexStart ==
    /\ indexer.pc \in {"idle", "done", "failed"}
    /\ indexer.run < MaxIndexRuns
    /\ \E batch_size \in 1..MaxBatch, distance \in DistanceArgs, recreate \in BOOLEAN :
          LET records == IF output_file.exists THEN _load_records(output_file.records)
                         ELSE <<>>
              started == [pc |-> "upsert",
                          records |-> records,
                          vectors |-> [k \in 1..Len(records) |-> EncodeVector(records[k].content)],
                          start |-> 0,
                          batch_size |-> batch_size,
                          distance |-> distance,
                          recreate |-> recreate,
                          run |-> indexer.run + 1]
          IN  IF records = <<>>
              THEN /\ indexer' = [started EXCEPT !.pc = "done"]
                   /\ UNCHANGED collection
              ELSE LET ensured == EnsureCollection(collection, distance, recreate)
                   IN  /\ indexer' = IF ensured.raised
                                      THEN [started EXCEPT !.pc = "failed"]
                                      ELSE started
                       /\ collection' = ensured.collection
    /\ UNCHANGED <<cfgvars, crawlvars, envvars, textvars, pipevars>>

\* _upsert_qdrant, one iteration of lines 198-209
UpsertBatch ==
    /\ indexer.pc = "upsert"
    /\ indexer.start < Len(indexer.records)
    /\ LET end == Min(indexer.start + indexer.batch_size, Len(indexer.records))
       IN  /\ collection' =
                 [collection EXCEPT !.points =
                     UpsertPoints(@, BatchPoints(indexer.records, indexer.vectors,
                                                 indexer.start, end))]
           /\ indexer' = [indexer EXCEPT !.start = end]
    /\ UNCHANGED <<cfgvars, crawlvars, envvars, textvars, pipevars>>

\* lines 325-335: all batches are sent
IndexFinish ==
    /\ indexer.pc = "upsert"
    /\ indexer.start >= Len(indexer.records)
    /\ indexer' = [indexer EXCEPT !.pc = "done"]
    /\ UNCHANGED <<cfgvars, crawlvars, envvars, textvars, pipevars, collection>>

NextIndex == IndexStart \/ UpsertBatch \/ IndexFinish

SpecIndex == InitIndex /\ [][NextIndex]_vars

----------------------------------------------------------------------------
(* Claims about the indexing stage (SpecIndex) *)

\* the records of the input file
InputRecords == _load_records(output_file.records)

\* the store after the record set has been indexed once into an empty
\* collection, all records in one batch
IndexedOnce ==
    UpsertPoints({}, BatchPoints(InputRecords,
                                 [k \in 1..Len(InputRecords) |->
                                     EncodeVector(InputRecords[k].content)],
                                 0, Len(InputRecords)))

IndexedTimes(n) == indexer.pc = "done" /\ indexer.run = n /\ InputRecords # <<>>

NoIdCollision ==
    \A j, k \in 1..Len(InputRecords) :
        _stable_id(InputRecords[j].chunk_id) = _stable_id(InputRecords[k].chunk_id)
            => InputRecords[j].chunk_id = InputRecords[k].chunk_id

----------------------------------------------------------------------------
(* Further claims about the text machine (SpecText) *)

\* run is the run of whole sentences a..b of the input, in input order
IsRun(run, a, b) == a <= b /\ run = SubSeq(sentences, a, b)

\* C16: for a non-empty sequence of sentences and any chunk_size,
\* semantic_chunking emits at least one chunk, every chunk is the
\* concatenation of a contiguous run of whole input sentences in input order,
\* and every input sentence lies in the run of at least one chunk.
C16_ChunksAreSentenceRuns ==
    (Chunked /\ sentences # <<>>) =>
        /\ chunks # <<>>
        /\ Len(flushed) = Len(chunks)
        /\ \A i \in 1..Len(chunks) :
              /\ chunks[i] = Join(flushed[i])
              /\ \E a, b \in 1..Len(sentences) : IsRun(flushed[i], a, b)
        /\ \A k \in 1..Len(sentences) :
              \E i \in 1..Len(chunks), a, b \in 1..Len(sentences) :
                  a <= k /\ k <= b /\ IsRun(flushed[i], a, b)

\* three or more sentences have given several chunks, one of them of several
\* sentences and one a single sentence longer than chunk_size
C16_Witness ==
    /\ Chunked
    /\ Len(sentences) >= 3
    /\ Len(chunks) >= 2
    /\ \E i \in 1..Len(chunks) : Len(flushed[i]) >= 2
    /\ \E i \in 1..Len(chunks) : Len(flushed[i]) = 1 /\ Len(chunks[i]) > CHUNK_SIZE

\* a step of the loop that flushes the accumulator
Flushes == pc = "loop" /\ pc' = "loop" /\ Len(chunks') = Len(chunks) + 1

\* the last min(overlap, Len(cur)) sentences of cur
LastSentences(cur, overlap) ==
    SubSeq(cur, Len(cur) - (IF overlap < Len(cur) THEN overlap ELSE Len(cur)) + 1, Len(cur))

\* C17 (as stated): for every overlap >= 0, on each flush of a chunk of k
\* sentences the next accumulator is seeded with exactly the last
\* min(overlap, k) sentences of that chunk, and the accumulated length after
\* seeding is the summed length of the seed (the sentence that caused the
\* flush is then appended); with overlap = 0 the seed is empty.
C17_SeedIsLastOverlap ==
    [][Flushes =>
          LET seed == LastSentences(current_chunk, OVERLAP_SENTENCES)
          IN  /\ current_chunk' = Append(seed, sentences[pos])
              /\ current_len' = SumLen(seed) + Len(sentences[pos])
              /\ OVERLAP_SENTENCES = 0 => current_chunk' = <<sentences[pos]>>]_vars

\* the same statement for the overlap settings >= 1
C17_HoldsForPositiveOverlap ==
    [][(Flushes /\ OVERLAP_SENTENCES >= 1) =>
          LET seed == LastSentences(current_chunk, OVERLAP_SENTENCES)
          IN  /\ current_chunk' = Append(seed, sentences[pos])
              /\ current_len' = SumLen(seed) + Len(sentences[pos])]_vars

HasVisibleChar(s) == \E k \in 1..Len(s) : IsPrintable(s[k]) /\ ~IsSpace(s[k])

\* t is two lines separated by one newline, each with something to read and
\* neither with a sentence-terminating mark
TwoPlainLines(t) ==
    \E k \in 1..Len(t) :
        /\ t[k] = "\n"
        /\ \A j \in 1..Len(t) : j # k => t[j] \notin SentenceDelimiters
        /\ HasVisibleChar(SubSeq(t, 1, k - 1))
        /\ HasVisibleChar(SubSeq(t, k + 1, Len(t)))

\* C18 (as stated): a newline of a unit's text still acts as a sentence
\* boundary after normalisation: two lines separated by a newline, with no
\* mark in them, come out of the splitter as two sentences.
C18_NewlineSplitsSentences ==
    (Split /\ TwoPlainLines(raw)) => Len(sentences) = 2

\* chunk i is n sentences carried over from the end of chunk i - 1 followed
\* by exactly one new sentence
SeedPlusOne(i, n) ==
    /\ n <= Len(flushed[i - 1])
    /\ Len(flushed[i]) = n + 1
    /\ SubSeq(flushed[i], 1, n) =
           SubSeq(flushed[i - 1], Len(flushed[i - 1]) - n + 1, Len(flushed[i - 1]))

OversizeChunksAreMinimal ==
    \A i \in 1..Len(chunks) :
        Len(chunks[i]) > CHUNK_SIZE =>
            \/ i = 1 /\ Len(flushed[i]) = 1
            \/ i > 1 /\ \E n \in 1..OVERLAP_SENTENCES : SeedPlusOne(i, n)

\* a step of the loop that appends to a non-empty accumulator without a flush
AppendsWithoutFlush ==
    pc = "loop" /\ pc' = "loop" /\ chunks' = chunks /\ current_chunk # <<>>

\* C19: with overlap >= 1 a chunk longer than chunk_size is either a single
\* sentence (the first chunk) or at most `overlap` seed sentences carried
\* over from the previous chunk followed by exactly one new sentence; a
\* further sentence is never appended to an accumulator when that would take
\* it beyond chunk_size.
C19_SoftBound ==
    /\ [](OVERLAP_SENTENCES >= 1 => OversizeChunksAreMinimal)
    /\ [][(OVERLAP_SENTENCES >= 1 /\ AppendsWithoutFlush) => current_len' <= CHUNK_SIZE]_vars

\* with overlap >= 1 a first chunk of one oversized sentence and a later
\* chunk of seed plus one new sentence, longer than chunk_size, were emitted
C19_Witness ==
    /\ Chunked
    /\ OVERLAP_SENTENCES >= 1
    /\ Len(chunks) >= 3
    /\ Len(flushed[1]) = 1 /\ Len(chunks[1]) > CHUNK_SIZE
    /\ \E i \in 2..Len(chunks) :
          /\ Len(chunks[i]) > CHUNK_SIZE
          /\ Len(flushed[i]) = OVERLAP_SENTENCES + 1

----------------------------------------------------------------------------
(* Further claims about the plain-text adapter (SpecTxt) *)

\* how many of the first lines are the header: the title line and the
\* separator and URL: lines that follow it directly at the top of the file
HeaderLength(lines) ==
    LET others == {k \in 2..Len(lines) :
                      ~IsSeparatorLine(lines[k]) /\ ~IsUrlLine(lines[k])}
    IN  IF others = {} THEN Len(lines)
        ELSE (CHOOSE k \in others : \A j \in others : k <= j) - 1

\* every non-blank line after the header, in file order
LinesAfterHeader(lines) == SubSeq(lines, HeaderLength(lines) + 1, Len(lines))

\* C20 (as stated): only the header lines at the top of the file are left
\* out of the body: every other non-empty line, wherever it stands and
\* whatever it starts with, is part of the body text that is chunked, in file
\* order.
C20_OnlyHeaderLeftOut ==
    (Walked /\ LinesAfterHeader(TheLines) # <<>>) =>
        ContentsOf(all_data) = EmittedChunksOf(JoinWith(<<"\n">>, LinesAfterHeader(TheLines)))

----------------------------------------------------------------------------
(* Progress of semantic_chunking (SpecText) *)

\* run ends at input position e
EndsAt(run, e) ==
    /\ run # <<>>
    /\ Len(run) <= e
    /\ e <= Len(sentences)
    /\ run = SubSeq(sentences, e - Len(run) + 1, e)

RECURSIVE EndOf(_)
\* the input position of the last sentence of chunk i: the least position
\* beyond that of chunk i - 1 at which the sentences of chunk i end (0 before
\* the first chunk, -1 when there is none)
EndOf(i) ==
    IF i = 0 THEN 0
    ELSE LET prev == EndOf(i - 1)
             ends == {e \in 1..Len(sentences) : e > prev /\ EndsAt(flushed[i], e)}
         IN  IF prev < 0 \/ ends = {} THEN -1
             ELSE CHOOSE e \in ends : \A d \in ends : e <= d

\* C21: the input position of the last sentence of successive chunks
\* strictly increases (so every chunk holds a sentence no earlier chunk
\* holds), there are at most as many chunks as sentences, and the final chunk
\* ends with the final input sentence.
C21_ChunkEndsAdvance ==
    /\ Len(flushed) = Len(chunks)
    /\ Len(chunks) <= Len(sentences)
    /\ \A i \in 1..Len(chunks) : chunks[i] = Join(flushed[i])
    /\ IF Chunked /\ chunks # <<>>
       THEN /\ EndOf(Len(chunks) - 1) \in 0..(Len(sentences) - 1)
            /\ EndsAt(flushed[Len(chunks)], Len(sentences))
       ELSE EndOf(Len(chunks)) >= 0
    /\ (Chunked /\ sentences # <<>>) => chunks # <<>>

\* several chunks were emitted, with overlap, from a text in which a sentence
\* occurs twice
C21_Witness ==
    /\ Chunked
    /\ OVERLAP_SENTENCES >= 1
    /\ Len(chunks) >= 3
    /\ Len(chunks) = Len(sentences)
    /\ \E j, k \in 1..Len(sentences) : j # k /\ sentences[j] = sentences[k]
    /\ \E i \in 1..Len(chunks) : Len(flushed[i]) >= 2

----------------------------------------------------------------------------
(* Further claims about the indexing stage (SpecIndex) *)

\* C22 (as stated): when _ensure_qdrant_collection raises because the
\* distance name is not one of cosine, dot, euclid, the existing collections
\* are the same as before the call, whether or not recreate is set.
C22_ErrorLeavesCollections ==
    [][(indexer'.pc = "failed" /\ indexer'.run # indexer.run) =>
          collection' = collection]_vars

\* the same statement for the calls without recreate
C22_HoldsWithoutRecreate ==
    [][(indexer'.pc = "failed" /\ indexer'.run # indexer.run /\ ~indexer'.recreate) =>
          collection' = collection]_vars

----------------------------------------------------------------------------
(* reptile.py: the crawl loop, one action per request of fetch_html and its  *)
(* consequence in the loop                                                   *)

MaxPages == 7

\* what session.get comes to: a page with article blocks, a page without, a
\* 404, a status other than 200 and 404, a timeout, a connection error, and
\* an exception fetch_html does not retry
Responses == {"200", "200-empty", "404", "500", "timeout", "connection", "other"}

\* requests.Timeout, requests.ConnectionError and the requests.HTTPError of
\* line 76
Retriable(resp) == resp \in {"500", "timeout", "connection"}

\* the page at hand is done with: fetch_html came to outcome after c.attempt
\* requests
PageDone(c, outcome) ==
    [c EXCEPT !.pages = Append(@, [page |-> c.page_index, outcome |-> outcome,
                                   requests |-> c.attempt])]

NextPage(c) == [c EXCEPT !.page_index = @ + 1, !.attempt = 1]

\* lines 114-122: html is None
LoopAfterNone(c) ==
    LET failures == c.consecutive_failures + 1
    IN  IF failures >= MAX_CONSECUTIVE_FAILURES
        THEN [c EXCEPT !.consecutive_failures = failures, !.pc = "stopped"]
        ELSE NextPage([c EXCEPT !.consecutive_failures = failures])

\* a slip: line 124 left out, the counter not reset by a fetched page
LoopAfterFetchedNoReset(c, has_articles) ==
    IF ~has_articles THEN [c EXCEPT !.pc = "stopped"] ELSE NextPage(c)

\* lines 124-169: the page was fetched; a page without article blocks ends
\* the loop at line 131, and so does an exception of lines 125-169 at line 173
LoopAfterFetched(c, has_articles) ==
    LET reset == [c EXCEPT !.consecutive_failures = 0]
    IN  IF ~has_articles THEN [reset EXCEPT !.pc = "stopped"] ELSE NextPage(reset)

Crawling == crawler.pc = "loop" /\ Len(crawler.pages) < MaxPages

CrawlFrame == UNCHANGED <<cfgvars, envvars, idxvars, textvars, pipevars>>

\* fetch_html, lines 80-85: a retriable error before the last attempt
CrawlRetry ==
    /\ Crawling
    /\ \E resp \in Responses : Retriable(resp)
    /\ crawler.attempt < MAX_RETRIES_PER_PAGE
    /\ crawler' = [crawler EXCEPT !.attempt = @ + 1]
    /\ CrawlFrame

\* fetch_html, lines 86-93: a retriable error at the last attempt, None
CrawlPageFailed ==
    /\ Crawling
    /\ \E resp \in Responses : Retriable(resp)
    /\ crawler.attempt >= MAX_RETRIES_PER_PAGE
    /\ crawler' = LoopAfterNone(PageDone(crawler, "none"))
    /\ CrawlFrame

\* fetch_html, lines 78-79: status 200
CrawlPageFetched ==
    /\ Crawling
    /\ \E resp \in {"200", "200-empty"}, parsed \in BOOLEAN :
          crawler' = LoopAfterFetched(PageDone(crawler, "fetched"),
                                      parsed /\ resp = "200")
    /\ CrawlFrame

\* fetch_html, lines 72-73, and lines 111-113: the last page
CrawlLastPage ==
    /\ Crawling
    /\ "404" \in Responses
    /\ crawler' = [PageDone(crawler, "404") EXCEPT !.pc = "stopped"]
    /\ CrawlFrame

\* fetch_html, lines 88-90, and lines 171-173: any other exception
CrawlRaises ==
    /\ Crawling
    /\ "other" \in Responses
    /\ crawler' = [PageDone(crawler, "raised") EXCEPT !.pc = "stopped"]
    /\ CrawlFrame

InitCrawl ==
    /\ CHUNK_SIZE = DEFAULT_CHUNK_SIZE
    /\ MIN_CHUNK_SIZE = DEFAULT_MIN_CHUNK_SIZE
    /\ OVERLAP_SENTENCES = DEFAULT_OVERLAP_SENTENCES
    /\ Document = "None"
    /\ tree = {}
    /\ pending = {}
    /\ all_data = <<>>
    /\ output_file = NoOutputFile
    /\ phase = "idle"
    /\ installed = Libraries
    /\ TextIdle
    /\ IndexIdle
    /\ crawler = CrawlerStart

NextCrawl ==
    \/ CrawlRetry
    \/ CrawlPageFailed
    \/ CrawlPageFetched
    \/ CrawlLastPage
    \/ CrawlRaises

SpecCrawl == InitCrawl /\ [][NextCrawl]_vars

\* the pages the loop took past line 113: fetch_html returned None or the
\* page's text (a 404 and an exception of fetch_html end the loop before the
\* counter is touched)
CountedPages ==
    SelectSeq(crawler.pages, LAMBDA p : p.outcome \in {"none", "fetched"})

\* how many pages at the end of ps, in a row, fetch_html returned None for
TrailingNone(ps) ==
    LET n  == Len(ps)
        ks == {k \in 0..n : \A i \in (n - k + 1)..n : ps[i].outcome = "none"}
    IN  CHOOSE k \in ks : \A j \in ks : j <= k

\* C23: in the crawl loop consecutive_failures is the number of pages in a
\* row, up to the page just done with, that fetch_html returned None for (so
\* a fetched page puts it back to 0); it never exceeds
\* MAX_CONSECUTIVE_FAILURES, the loop does not go on once it has reached it,
\* and no page costs more than MAX_RETRIES_PER_PAGE requests.
C23_FailureCounter ==
    /\ crawler.consecutive_failures = TrailingNone(CountedPages)
    /\ crawler.consecutive_failures <= MAX_CONSECUTIVE_FAILURES
    /\ crawler.pc = "loop" =>
          crawler.consecutive_failures < MAX_CONSECUTIVE_FAILURES
    /\ \A i \in 1..Len(crawler.pages) :
          /\ crawler.pages[i].requests <= MAX_RETRIES_PER_PAGE
          /\ crawler.pages[i].outcome = "none" =>
                crawler.pages[i].requests = MAX_RETRIES_PER_PAGE

\* the loop gave up after MAX_CONSECUTIVE_FAILURES failed pages, the counter
\* having been raised and put back to 0 by a fetched page before
C23_Witness ==
    /\ crawler.pc = "stopped"
    /\ crawler.consecutive_failures = MAX_CONSECUTIVE_FAILURES
    /\ Len(crawler.pages) >= MAX_CONSECUTIVE_FAILURES + 2
    /\ \E i \in 2..Len(crawler.pages) :
          /\ crawler.pages[i].outcome = "fetched"
          /\ crawler.pages[i - 1].outcome = "none"

====
